---- MODULE Spec2Model ----
(***************************************************************************)
(* Model of services/image_upscaler/upscaler.py: the dispatch and          *)
(* parameter-resolution logic of upscale() and its helpers _get_model,     *)
(* _get_model_path, _get_extension, _get_device_type, _load_face_enhancer. *)
(*                                                                         *)
(* Conventions                                                             *)
(*  - Python's None and "not yet assigned" are the empty sequence <<>>;    *)
(*    a present value x is the one-element sequence <<x>> (Some(x)).       *)
(*  - A weight file is a pair <<dir, name>>: dir is "root" (the directory  *)
(*    root_dir/weights computed from __file__) or "cwd" (./weights when    *)
(*    the process working directory is not root_dir); name is the file     *)
(*    name without the ".pth" suffix.                                      *)
(*  - A path is a record [dir, name] with dir "rel" (relative to the       *)
(*    working directory) or "root" (absolute, under root_dir/weights).     *)
(*  - A URL is a record [release, file]; its basename is file + ".pth".    *)
(*  - A denoise strength is an integer number of 1/StrengthDen units, so   *)
(*    the strength 1 is StrengthDen and 1 - s is StrengthDen - s.          *)
(*  - The values of the ModelName enum (schema.py) are taken to be the     *)
(*    weight-file names of the release URLs, as line 31's replace of       *)
(*    'realesr-general-x4v3' inside the path built at line 120 requires.   *)
(***************************************************************************)
EXTENDS Integers, Sequences, FiniteSets, TLC

VARIABLES
    fs,             \* the weight files on disk
    cwdIsRoot,      \* whether the working directory is root_dir
    pc,             \* position of the running upscale() call
    params,         \* the UpscaleRequest of the call, Some(record) or None
    model_entity,   \* line 25
    model_path,     \* lines 26-32: sequence of paths (one, or two for dni)
    dni_weight,     \* lines 29-33
    downloads,      \* URLs fetched over the network by the running call
    cuda_available, \* answer of cudaIsAvailable(): "unqueried", "yes", "no"
    mps_available,  \* answer of mpsIsAvailable():  "unqueried", "yes", "no"
    device,         \* line 36
    upsampler,      \* lines 42-53, Some(record of the constructor arguments)
    img_mode,       \* lines 58-61: "undecoded", "RGBA", "None"
    face_enhancer,  \* line 65, Some(record of the constructor arguments)
    enhance_call,   \* lines 66/68: Some([callee, outscale]) once `output` exists
    extension,      \* line 73
    encoded_as,     \* the extension handed to cv2.imencode at line 76
    result,         \* the returned tuple, Some([buffer, extension])
    error,          \* the exception that ended the call, "" when none
    logged,         \* errors written by logger.error at line 70
    trace,          \* the external calls made by the running call, in order
    resolved,       \* Some(outcome) of the latest direct _get_model_path call
    resolvedPrev,   \* Some(outcome) of the direct call before it
    nres            \* number of direct _get_model_path calls made

vars == <<fs, cwdIsRoot, pc, params, model_entity, model_path, dni_weight,
          downloads, cuda_available, mps_available, device, upsampler,
          img_mode, face_enhancer, enhance_call, extension, encoded_as,
          result, error, logged, trace, resolved, resolvedPrev, nres>>

None == <<>>
Some(x) == <<x>>

\* ---------------------------------------------------------------- bounds
\* denominator of the denoise strengths: strength k stands for k/StrengthDen
StrengthDen == 10
\* number of successive direct _get_model_path calls explored
MaxResolves == 3

\* ---------------------------------------------------------- input domains
General == "realesr_general_x4v3"
SupportedModels == {"RealESRGAN_x4plus", "RealESRGAN_x2plus",
                    "RealESRGAN_x4plus_anime_6B", "realesr_animevideov3",
                    "realesr_general_x4v3", "UltraSharp_x4"}
\* one identifier outside the six branches of _get_model
ModelNames == SupportedModels \cup {"RealESRNet_x4plus"}
DenoiseStrengths == {None, Some(3), Some(StrengthDen)}
DeviceTypes == {"auto", "cuda", "cpu", "mps", "unknown"}
Exts == {"auto", "webp"}
Outscales == {2, 4}
Requests == [model_name : ModelNames, denoise_strength : DenoiseStrengths,
             device_type : DeviceTypes, fp32 : BOOLEAN,
             face_enhance : BOOLEAN, outscale : Outscales, ext : Exts]

GeneralFile == "realesr-general-x4v3"
WdnFile == "realesr-general-wdn-x4v3"
GfpganUrl == [release |-> "GFPGAN/v1.3.0", file |-> "GFPGANv1.3"]

\* ------------------------------------------------------------ _get_model
Url(release, file) == [release |-> release, file |-> file]
Entity(model, netscale, file_url) ==
    [ok |-> TRUE, model |-> model, netscale |-> netscale, file_url |-> file_url]
InvalidModel == [ok |-> FALSE, model |-> "", netscale |-> 0, file_url |-> <<>>]

\* GetModel with the final else branch falling back to the x4plus entry
GetModelDefaulting(model_name) ==
    IF model_name = "RealESRGAN_x2plus"
    THEN Entity("RRDBNet23x2", 2, <<Url("v0.2.1", "RealESRGAN_x2plus")>>)
    ELSE IF model_name = "RealESRGAN_x4plus_anime_6B"
    THEN Entity("RRDBNet6", 4, <<Url("v0.2.2.4", "RealESRGAN_x4plus_anime_6B")>>)
    ELSE IF model_name = "realesr_animevideov3"
    THEN Entity("SRVGG16", 4, <<Url("v0.2.5.0", "realesr-animevideov3")>>)
    ELSE IF model_name = "realesr_general_x4v3"
    THEN Entity("SRVGG32", 4, <<Url("v0.2.5.0", "realesr-general-wdn-x4v3"),
                                Url("v0.2.5.0", "realesr-general-x4v3")>>)
    ELSE IF model_name = "UltraSharp_x4"
    THEN Entity("RRDBNet23", 4, <<Url("v0.3.1", "UltraSharp_x4")>>)
    ELSE Entity("RRDBNet23", 4, <<Url("v0.1.0", "RealESRGAN_x4plus")>>)

\* GetModel with the wdn URL listed for the anime-video model as well
GetModelExtraUrl(model_name) ==
    IF model_name = "RealESRGAN_x4plus"
    THEN Entity("RRDBNet23", 4, <<Url("v0.1.0", "RealESRGAN_x4plus")>>)
    ELSE IF model_name = "RealESRGAN_x2plus"
    THEN Entity("RRDBNet23x2", 2, <<Url("v0.2.1", "RealESRGAN_x2plus")>>)
    ELSE IF model_name = "RealESRGAN_x4plus_anime_6B"
    THEN Entity("RRDBNet6", 4, <<Url("v0.2.2.4", "RealESRGAN_x4plus_anime_6B")>>)
    ELSE IF model_name = "realesr_animevideov3"
    THEN Entity("SRVGG16", 4, <<Url("v0.2.5.0", "realesr-animevideov3-wdn"),
                                Url("v0.2.5.0", "realesr-animevideov3")>>)
    ELSE IF model_name = "realesr_general_x4v3"
    THEN Entity("SRVGG32", 4, <<Url("v0.2.5.0", "realesr-general-wdn-x4v3"),
                                Url("v0.2.5.0", "realesr-general-x4v3")>>)
    ELSE IF model_name = "UltraSharp_x4"
    THEN Entity("RRDBNet23", 4, <<Url("v0.3.1", "UltraSharp_x4")>>)
    ELSE InvalidModel

GetModel(model_name) ==
    IF model_name = "RealESRGAN_x4plus"
    THEN Entity("RRDBNet23", 4, <<Url("v0.1.0", "RealESRGAN_x4plus")>>)
    ELSE IF model_name = "RealESRGAN_x2plus"
    THEN Entity("RRDBNet23x2", 2, <<Url("v0.2.1", "RealESRGAN_x2plus")>>)
    ELSE IF model_name = "RealESRGAN_x4plus_anime_6B"
    THEN Entity("RRDBNet6", 4, <<Url("v0.2.2.4", "RealESRGAN_x4plus_anime_6B")>>)
    ELSE IF model_name = "realesr_animevideov3"
    THEN Entity("SRVGG16", 4, <<Url("v0.2.5.0", "realesr-animevideov3")>>)
    ELSE IF model_name = "realesr_general_x4v3"
    THEN Entity("SRVGG32", 4, <<Url("v0.2.5.0", WdnFile),
                                Url("v0.2.5.0", GeneralFile)>>)
    ELSE IF model_name = "UltraSharp_x4"
    THEN Entity("RRDBNet23", 4, <<Url("v0.3.1", "UltraSharp_x4")>>)
    ELSE InvalidModel

\* the value of the ModelName member, as used by `model_name + '.pth'`
ModelValue(model_name) ==
    IF model_name = "realesr_animevideov3" THEN "realesr-animevideov3"
    ELSE IF model_name = "realesr_general_x4v3" THEN GeneralFile
    ELSE model_name

\* -------------------------------------------------------- _get_model_path
\* the directory a path's first component names
ResolveDir(isRoot, dir) ==
    IF dir = "rel" THEN (IF isRoot THEN "root" ELSE "cwd") ELSE dir

\* os.path.isfile(path), and the same test for every later open of the path
IsFile(files, isRoot, path) == <<ResolveDir(isRoot, path.dir), path.name>> \in files

\* LoadFileFromUrl without the look into model_dir: every call fetches
LoadFileFromUrlAlways(files, url, fails) ==
    LET cached_file == [dir |-> "root", name |-> url.file]
    IN  IF fails
        THEN [ok |-> FALSE, fs |-> files, path |-> cached_file, fetched |-> TRUE]
        ELSE [ok |-> TRUE, fs |-> files \cup {<<"root", url.file>>},
              path |-> cached_file, fetched |-> TRUE]

\* load_file_from_url(url, model_dir = root_dir/weights, file_name = None):
\* the file is named after the URL's basename; it is fetched when it is not
\* in model_dir already, and the fetch either stores it or raises.
LoadFileFromUrl(files, url, fails) ==
    LET cached_file == [dir |-> "root", name |-> url.file]
    IN  IF <<"root", url.file>> \in files
        THEN [ok |-> TRUE, fs |-> files, path |-> cached_file, fetched |-> FALSE]
        ELSE IF fails
        THEN [ok |-> FALSE, fs |-> files, path |-> cached_file, fetched |-> TRUE]
        ELSE [ok |-> TRUE, fs |-> files \cup {<<"root", url.file>>},
              path |-> cached_file, fetched |-> TRUE]

\* the loop of lines 123-126 from its i-th URL on; the fetch of URL number
\* failAt raises (failAt = 0: no fetch raises)
RECURSIVE DownloadLoop(_, _, _, _, _, _)
DownloadLoop(files, file_url, i, failAt, path, fetched) ==
    IF i > Len(file_url)
    THEN [ok |-> TRUE, fs |-> files, model_path |-> path, downloads |-> fetched]
    ELSE LET r == LoadFileFromUrl(files, file_url[i], i = failAt)
             f == IF r.fetched THEN Append(fetched, file_url[i]) ELSE fetched
         IN  IF r.ok
             THEN DownloadLoop(r.fs, file_url, i + 1, failAt, r.path, f)
             ELSE [ok |-> FALSE, fs |-> r.fs, model_path |-> path, downloads |-> f]

GetModelPath(files, isRoot, model_name, file_url, failAt) ==
    LET named == [dir |-> "rel", name |-> ModelValue(model_name)]
    IN  IF ~IsFile(files, isRoot, named)
        THEN DownloadLoop(files, file_url, 1, failAt, named, <<>>)
        ELSE [ok |-> TRUE, fs |-> files, model_path |-> named,
              downloads |-> <<>>]

\* ---------------------------------------------------- denoise blending
\* str.replace('realesr-general-x4v3', 'realesr-general-wdn-x4v3') on a path
\* whose directory part does not contain the pattern
ReplaceGeneralByWdn(path) ==
    IF path.name = GeneralFile THEN [path EXCEPT !.name = WdnFile] ELSE path

\* Dni without the test `denoise_strength != 1`
DniIgnoringOne(model_name, denoise_strength, path) ==
    IF model_name = General /\ denoise_strength # None
    THEN [model_path |-> <<path, ReplaceGeneralByWdn(path)>>,
          dni_weight |-> <<denoise_strength[1],
                           StrengthDen - denoise_strength[1]>>]
    ELSE [model_path |-> <<path>>, dni_weight |-> None]

\* lines 29-33: the pair (model_path, dni_weight)
Dni(model_name, denoise_strength, path) ==
    IF model_name = General /\ denoise_strength # None
       /\ denoise_strength[1] # StrengthDen
    THEN [model_path |-> <<path, ReplaceGeneralByWdn(path)>>,
          dni_weight |-> <<denoise_strength[1],
                           StrengthDen - denoise_strength[1]>>]
    ELSE [model_path |-> <<path>>, dni_weight |-> None]

\* ------------------------------------------------------ _get_device_type
\* GetDeviceType with an explicit cuda or mps request falling back to cpu
GetDeviceTypeFallback(backend_type, cuda, mps) ==
    IF backend_type = "auto"
    THEN [ok |-> TRUE,
          backend |-> IF cuda THEN "cuda" ELSE IF mps THEN "mps" ELSE "cpu",
          error |-> ""]
    ELSE IF backend_type = "cuda"
    THEN [ok |-> TRUE, backend |-> IF cuda THEN "cuda" ELSE "cpu", error |-> ""]
    ELSE IF backend_type = "cpu"
    THEN [ok |-> TRUE, backend |-> "cpu", error |-> ""]
    ELSE IF backend_type = "mps"
    THEN [ok |-> TRUE, backend |-> IF mps THEN "mps" ELSE "cpu", error |-> ""]
    ELSE [ok |-> FALSE, backend |-> "", error |-> "UnboundLocalError"]

\* match backend_type (lines 143-162); cuda and mps are the answers of the
\* availability queries; a value matching no case leaves `backend` unbound
GetDeviceType(backend_type, cuda, mps) ==
    IF backend_type = "auto"
    THEN [ok |-> TRUE,
          backend |-> IF cuda THEN "cuda" ELSE IF mps THEN "mps" ELSE "cpu",
          error |-> ""]
    ELSE IF backend_type = "cuda"
    THEN IF cuda THEN [ok |-> TRUE, backend |-> "cuda", error |-> ""]
         ELSE [ok |-> FALSE, backend |-> "", error |-> "CUDA is not available"]
    ELSE IF backend_type = "cpu"
    THEN [ok |-> TRUE, backend |-> "cpu", error |-> ""]
    ELSE IF backend_type = "mps"
    THEN IF mps THEN [ok |-> TRUE, backend |-> "mps", error |-> ""]
         ELSE [ok |-> FALSE, backend |-> "", error |-> "MPS is not available"]
    ELSE [ok |-> FALSE, backend |-> "", error |-> "UnboundLocalError"]

\* which availability queries the match statement makes
QueriesCuda(backend_type) == backend_type \in {"auto", "cuda"}
QueriesMps(backend_type, cuda) ==
    backend_type = "mps" \/ (backend_type = "auto" /\ ~cuda)

\* Half without the test of the device
HalfOnAnyDevice(fp32, dev) == ~fp32

\* line 39
Half(fp32, dev) == IF dev \in {"cuda", "mps"} THEN ~fp32 ELSE FALSE

\* -------------------------------------------------------- _get_extension
\* GetExtension with the request tested before the image mode
GetExtensionRequestFirst(mode, ext) ==
    IF ext = "auto" THEN (IF mode = "RGBA" THEN "png" ELSE "jpg")
    ELSE ext

GetExtension(mode, ext) ==
    IF mode = "RGBA" THEN "png"
    ELSE IF ext = "auto" THEN "jpg"
    ELSE ext

\* ------------------------------------------------------------ initial state
\* the weight files that may be on disk before the first call: any of the two
\* general-model files in either weights directory, and the x4plus file
InitNames == {GeneralFile, WdnFile, "RealESRGAN_x4plus"}
InitCaches(isRoot) ==
    IF isRoot THEN SUBSET ({"root"} \X InitNames)
    ELSE {a \cup b : a \in SUBSET ({"root"} \X {GeneralFile, WdnFile}),
                     b \in SUBSET ({"cwd"} \X {GeneralFile, WdnFile})
                           \cup {{<<"cwd", "RealESRGAN_x4plus">>}}}

Init ==
    /\ cwdIsRoot \in BOOLEAN
    /\ fs \in InitCaches(cwdIsRoot)
    /\ pc = "idle"
    /\ params = None
    /\ model_entity = None
    /\ model_path = <<>>
    /\ dni_weight = None
    /\ downloads = <<>>
    /\ cuda_available = "unqueried"
    /\ mps_available = "unqueried"
    /\ device = ""
    /\ upsampler = None
    /\ img_mode = "undecoded"
    /\ face_enhancer = None
    /\ enhance_call = None
    /\ extension = ""
    /\ encoded_as = ""
    /\ result = None
    /\ error = ""
    /\ logged = <<>>
    /\ trace = <<>>
    /\ resolved = None
    /\ resolvedPrev = None
    /\ nres = 0

\* ------------------------------------------------------------------ upscale
resolverVars == <<resolved, resolvedPrev, nres>>
YesNo(b) == IF b THEN "yes" ELSE "no"

\* the call is entered with a request
Call ==
    /\ pc = "idle"
    /\ \E req \in Requests : params' = Some(req)
    /\ pc' = "get_model"
    /\ UNCHANGED <<fs, cwdIsRoot, model_entity, model_path, dni_weight,
                   downloads, cuda_available, mps_available, device, upsampler,
                   img_mode, face_enhancer, enhance_call, extension, encoded_as,
                   result, error, logged, trace, resolverVars>>

\* line 25
StepGetModel ==
    /\ pc = "get_model"
    /\ trace' = Append(trace, "_get_model")
    /\ LET e == GetModel(params[1].model_name)
       IN  IF e.ok
           THEN model_entity' = Some(e) /\ pc' = "get_model_path" /\ error' = ""
           ELSE model_entity' = None /\ pc' = "raised"
                /\ error' = "ValueError: Invalid model name"
    /\ UNCHANGED <<fs, cwdIsRoot, params, model_path, dni_weight, downloads,
                   cuda_available, mps_available, device, upsampler, img_mode,
                   face_enhancer, enhance_call, extension, encoded_as, result,
                   logged, resolverVars>>

\* line 26
StepGetModelPath ==
    /\ pc = "get_model_path"
    /\ trace' = Append(trace, "_get_model_path")
    /\ \E failAt \in 0..Len(model_entity[1].file_url) :
         LET r == GetModelPath(fs, cwdIsRoot, params[1].model_name,
                               model_entity[1].file_url, failAt)
         IN  /\ fs' = r.fs
             /\ downloads' = r.downloads
             /\ IF r.ok
                THEN model_path' = <<r.model_path>> /\ pc' = "dni" /\ error' = ""
                ELSE model_path' = <<>> /\ pc' = "raised"
                     /\ error' = "DownloadFailed"
    /\ UNCHANGED <<cwdIsRoot, params, model_entity, dni_weight,
                   cuda_available, mps_available, device, upsampler, img_mode,
                   face_enhancer, enhance_call, extension, encoded_as, result,
                   logged, resolverVars>>

\* lines 29-33
StepDni ==
    /\ pc = "dni"
    /\ LET d == Dni(params[1].model_name, params[1].denoise_strength,
                    model_path[1])
       IN  model_path' = d.model_path /\ dni_weight' = d.dni_weight
    /\ pc' = "get_device_type"
    /\ UNCHANGED <<fs, cwdIsRoot, params, model_entity, downloads,
                   cuda_available, mps_available, device, upsampler, img_mode,
                   face_enhancer, enhance_call, extension, encoded_as, result,
                   error, logged, trace, resolverVars>>

\* line 36
StepGetDeviceType ==
    /\ pc = "get_device_type"
    /\ trace' = Append(trace, "_get_device_type")
    /\ \E cuda \in BOOLEAN, mps \in BOOLEAN :
         LET r == GetDeviceType(params[1].device_type, cuda, mps)
         IN  /\ cuda_available' = IF QueriesCuda(params[1].device_type)
                                  THEN YesNo(cuda) ELSE "unqueried"
             /\ mps_available' = IF QueriesMps(params[1].device_type, cuda)
                                 THEN YesNo(mps) ELSE "unqueried"
             /\ device' = r.backend
             /\ error' = r.error
             /\ pc' = IF r.ok THEN "construct" ELSE "raised"
    /\ UNCHANGED <<fs, cwdIsRoot, params, model_entity, model_path, dni_weight,
                   downloads, upsampler, img_mode, face_enhancer, enhance_call,
                   extension, encoded_as, result, logged, resolverVars>>

\* lines 39-53: RealESRGANer loads every weight path it is given and raises
\* when one is missing; it may also raise for a reason of its own
StepConstruct ==
    /\ pc = "construct"
    /\ trace' = Append(trace, "RealESRGANer")
    /\ \E ctorRaises \in BOOLEAN :
         IF \E i \in 1..Len(model_path) : ~IsFile(fs, cwdIsRoot, model_path[i])
         THEN upsampler' = None /\ pc' = "raised" /\ error' = "FileNotFoundError"
         ELSE IF ctorRaises
         THEN upsampler' = None /\ pc' = "raised" /\ error' = "ConstructionError"
         ELSE /\ upsampler' = Some([scale |-> model_entity[1].netscale,
                                    model_path |-> model_path,
                                    dni_weight |-> dni_weight,
                                    model |-> model_entity[1].model,
                                    half |-> Half(params[1].fp32, device),
                                    device |-> device])
              /\ pc' = "imdecode" /\ error' = ""
    /\ UNCHANGED <<fs, cwdIsRoot, params, model_entity, model_path, dni_weight,
                   downloads, cuda_available, mps_available, device, img_mode,
                   face_enhancer, enhance_call, extension, encoded_as, result,
                   logged, resolverVars>>

\* lines 55-61: imdecode yields None for undecodable bytes and line 58 raises
StepDecode ==
    /\ pc = "imdecode"
    /\ trace' = Append(trace, "imdecode")
    /\ \E decoded \in {"RGBA", "None", "undecodable"} :
         IF decoded = "undecodable"
         THEN img_mode' = img_mode /\ pc' = "raised" /\ error' = "AttributeError"
         ELSE img_mode' = decoded /\ pc' = "enhance" /\ error' = ""
    /\ UNCHANGED <<fs, cwdIsRoot, params, model_entity, model_path, dni_weight,
                   downloads, cuda_available, mps_available, device, upsampler,
                   face_enhancer, enhance_call, extension, encoded_as, result,
                   logged, resolverVars>>

\* how a call made inside the try block of lines 63-71 can end
Outcomes == {"ok", "RuntimeError", "OtherError"}

\* the except block without its `raise error`: after a RuntimeError the
\* call goes on
RaiseInTrySwallowed(outcome) ==
    IF outcome = "RuntimeError"
    THEN pc' = "get_extension" /\ error' = "" /\ logged' = Append(logged, outcome)
    ELSE pc' = "raised" /\ error' = outcome /\ logged' = logged

\* lines 69-71: a RuntimeError inside the try block is logged and re-raised;
\* any other exception passes the except clause untouched
RaiseInTry(outcome) ==
    /\ pc' = "raised"
    /\ error' = outcome
    /\ logged' = IF outcome = "RuntimeError" THEN Append(logged, outcome)
                 ELSE logged

\* StepLoadFaceEnhancer without the test of params.face_enhance
StepLoadFaceEnhancerEager ==
    /\ pc = "enhance"
    /\ trace' = Append(trace, "GFPGANer")
    /\ face_enhancer' = Some([model_path |-> GfpganUrl,
                              upscale |-> params[1].outscale,
                              bg_upsampler |-> upsampler[1],
                              device |-> device])
    /\ pc' = "face_enhance"
    /\ UNCHANGED <<fs, cwdIsRoot, params, model_entity, model_path, dni_weight,
                   downloads, cuda_available, mps_available, device, upsampler,
                   img_mode, enhance_call, extension, encoded_as, result,
                   error, logged, resolved, resolvedPrev, nres>>

\* lines 64-65 and 166-181
StepLoadFaceEnhancer ==
    /\ pc = "enhance"
    /\ params[1].face_enhance
    /\ trace' = Append(trace, "GFPGANer")
    /\ \E outcome \in Outcomes :
         IF outcome = "ok"
         THEN /\ face_enhancer' = Some([model_path |-> GfpganUrl,
                                        upscale |-> params[1].outscale,
                                        bg_upsampler |-> upsampler[1],
                                        device |-> device])
              /\ pc' = "face_enhance" /\ error' = "" /\ logged' = logged
         ELSE face_enhancer' = None /\ RaiseInTry(outcome)
    /\ UNCHANGED <<fs, cwdIsRoot, params, model_entity, model_path, dni_weight,
                   downloads, cuda_available, mps_available, device, upsampler,
                   img_mode, enhance_call, extension, encoded_as, result,
                   resolverVars>>

\* line 66
StepFaceEnhance ==
    /\ pc = "face_enhance"
    /\ trace' = Append(trace, "face_enhancer.enhance")
    /\ \E outcome \in Outcomes :
         IF outcome = "ok"
         THEN /\ enhance_call' = Some([callee |-> "face_enhancer",
                                        outscale |-> None])
              /\ pc' = "get_extension" /\ error' = "" /\ logged' = logged
         ELSE enhance_call' = None /\ RaiseInTry(outcome)
    /\ UNCHANGED <<fs, cwdIsRoot, params, model_entity, model_path, dni_weight,
                   downloads, cuda_available, mps_available, device, upsampler,
                   img_mode, face_enhancer, extension, encoded_as, result,
                   resolverVars>>

\* lines 67-68
StepUpsamplerEnhance ==
    /\ pc = "enhance"
    /\ ~params[1].face_enhance
    /\ trace' = Append(trace, "upsampler.enhance")
    /\ \E outcome \in Outcomes :
         IF outcome = "ok"
         THEN /\ enhance_call' = Some([callee |-> "upsampler",
                                        outscale |-> Some(params[1].outscale)])
              /\ pc' = "get_extension" /\ error' = "" /\ logged' = logged
         ELSE enhance_call' = None /\ RaiseInTry(outcome)
    /\ UNCHANGED <<fs, cwdIsRoot, params, model_entity, model_path, dni_weight,
                   downloads, cuda_available, mps_available, device, upsampler,
                   img_mode, face_enhancer, extension, encoded_as, result,
                   resolverVars>>

\* line 73
StepGetExtension ==
    /\ pc = "get_extension"
    /\ extension' = GetExtension(img_mode, params[1].ext)
    /\ pc' = "imencode"
    /\ UNCHANGED <<fs, cwdIsRoot, params, model_entity, model_path, dni_weight,
                   downloads, cuda_available, mps_available, device, upsampler,
                   img_mode, face_enhancer, enhance_call, encoded_as, result,
                   error, logged, trace, resolverVars>>

\* lines 76-80
StepEncode ==
    /\ pc = "imencode"
    /\ trace' = Append(trace, "imencode")
    /\ encoded_as' = extension
    /\ \E is_success \in BOOLEAN :
         IF is_success
         THEN /\ result' = Some([buffer |-> [output_of |-> enhance_call[1].callee,
                                             format |-> extension],
                                 extension |-> extension])
              /\ pc' = "returned" /\ error' = ""
         ELSE /\ result' = None /\ pc' = "raised"
              /\ error' = "RuntimeError: Error encoding the image"
    /\ UNCHANGED <<fs, cwdIsRoot, params, model_entity, model_path, dni_weight,
                   downloads, cuda_available, mps_available, device, upsampler,
                   img_mode, face_enhancer, enhance_call, extension, logged,
                   resolverVars>>

Next ==
    \/ Call
    \/ StepGetModel
    \/ StepGetModelPath
    \/ StepDni
    \/ StepGetDeviceType
    \/ StepConstruct
    \/ StepDecode
    \/ StepLoadFaceEnhancer
    \/ StepFaceEnhance
    \/ StepUpsamplerEnhance
    \/ StepGetExtension
    \/ StepEncode

Spec == Init /\ [][Next]_vars

\* ----------------------------------------- _get_model_path, called directly
\* one call of _get_model_path for a supported model with the URL list of
\* its registry entry, as upscale makes it at line 26
EnsureLocal ==
    /\ pc = "idle"
    /\ nres < MaxResolves
    /\ \E m \in SupportedModels, failAt \in 0..2 :
         LET r == GetModelPath(fs, cwdIsRoot, m, GetModel(m).file_url, failAt)
         IN  /\ fs' = r.fs
             /\ resolved' = Some([model_name |-> m, ok |-> r.ok,
                                  model_path |-> r.model_path,
                                  downloads |-> r.downloads])
    /\ resolvedPrev' = resolved
    /\ nres' = nres + 1
    /\ UNCHANGED <<cwdIsRoot, pc, params, model_entity, model_path, dni_weight,
                   downloads, cuda_available, mps_available, device, upsampler,
                   img_mode, face_enhancer, enhance_call, extension, encoded_as,
                   result, error, logged, trace>>

NextCache == EnsureLocal

SpecCache == Init /\ [][NextCache]_vars

\* ================================================================ properties
Reached(event) == \E i \in 1..Len(trace) : trace[i] = event
IsPrefix(a, b) == Len(a) <= Len(b) /\ SubSeq(b, 1, Len(a)) = a
LastEvent == IF trace = <<>> THEN "" ELSE trace[Len(trace)]
\* the external calls of a call in which every stage succeeds
FullTrace(face) ==
    <<"_get_model", "_get_model_path", "_get_device_type", "RealESRGANer",
      "imdecode">>
    \o (IF face THEN <<"GFPGANer", "face_enhancer.enhance">>
        ELSE <<"upsampler.enhance">>)
    \o <<"imencode">>
Backends == {"cpu", "cuda", "mps"}

\* C1: a call of upscale with an unsupported model identifier ends with the
\* invalid-model error raised by the registry lookup, and nothing else has
\* been done in that call: no weight lookup or download, no device query, no
\* upscaler construction, no image decode.
C1_InvalidModelFailsBeforeIO ==
    (pc # "idle" /\ params[1].model_name \notin SupportedModels) =>
        /\ pc \in {"get_model", "raised"}
        /\ pc = "raised" => error = "ValueError: Invalid model name"
        /\ trace = IF pc = "raised" THEN <<"_get_model">> ELSE <<>>
        /\ downloads = <<>>
        /\ model_path = <<>>
        /\ cuda_available = "unqueried" /\ mps_available = "unqueried"
        /\ upsampler = None
        /\ img_mode = "undecoded"
        /\ result = None

C1_Witness ==
    /\ pc = "raised"
    /\ params[1].model_name \notin SupportedModels
    /\ error = "ValueError: Invalid model name"

\* C9: for every supported model identifier the registry's descriptor has two
\* URLs if the identifier is realesr_general_x4v3 and exactly one otherwise.
C9_UrlListLength ==
    model_entity # None =>
        /\ params[1].model_name \in SupportedModels
        /\ Len(model_entity[1].file_url) =
              IF params[1].model_name = General THEN 2 ELSE 1

C9_Witness ==
    /\ model_entity # None
    /\ params[1].model_name = General
    /\ Len(model_entity[1].file_url) = 2

\* C2: when _get_model_path is called twice in succession for the same
\* supported model and the first call succeeded, the second call succeeds
\* without fetching anything, whatever the working directory is; and no call
\* fetches the same URL twice, so the two calls together fetch each weight
\* file at most once.
C2_SecondResolveFetchesNothing ==
    /\ resolved # None =>
         \A i, j \in 1..Len(resolved[1].downloads) :
            resolved[1].downloads[i] = resolved[1].downloads[j] => i = j
    /\ (/\ resolved # None /\ resolvedPrev # None
        /\ resolvedPrev[1].ok
        /\ resolvedPrev[1].model_name = resolved[1].model_name) =>
         /\ resolved[1].ok
         /\ resolved[1].downloads = <<>>

C2_Witness ==
    /\ resolved # None /\ resolvedPrev # None
    /\ ~cwdIsRoot
    /\ resolvedPrev[1].ok
    /\ Len(resolvedPrev[1].downloads) = 2
    /\ resolvedPrev[1].model_name = resolved[1].model_name
    /\ resolved[1].downloads = <<>>

\* a weight file is on disk in one of the two weights directories
OnDisk(name) == \E d \in {"root", "cwd"} : <<d, name>> \in fs

\* C3: after a successful _get_model_path every URL of the descriptor has
\* its weight file on disk, and every weight path handed on to the upscaler
\* names an existing file.
C3_EveryUrlResolved ==
    (pc \in {"dni", "get_device_type", "construct"}) =>
        /\ \A i \in 1..Len(model_entity[1].file_url) :
              OnDisk(model_entity[1].file_url[i].file)
        /\ pc = "construct" =>
              \A i \in 1..Len(model_path) : IsFile(fs, cwdIsRoot, model_path[i])

\* the call ended inside _get_device_type
DeviceFailed == pc = "raised" /\ LastEvent = "_get_device_type"

\* C4: device resolution follows the enumerated policy for every preference
\* and every answer of the availability queries: auto yields cuda, else mps,
\* else cpu and never fails; cpu yields cpu; cuda and mps yield themselves
\* when available and fail otherwise, without fallback; a resolution yields
\* exactly one of cpu, cuda, mps or fails.
C4_DevicePolicy ==
    Reached("_get_device_type") =>
        LET t == params[1].device_type
        IN  /\ DeviceFailed \/ device \in Backends
            /\ DeviceFailed => device = ""
            /\ t = "auto" =>
                 /\ ~DeviceFailed
                 /\ cuda_available = "yes" => device = "cuda"
                 /\ (cuda_available = "no" /\ mps_available = "yes") =>
                       device = "mps"
                 /\ (cuda_available = "no" /\ mps_available = "no") =>
                       device = "cpu"
                 /\ cuda_available # "unqueried"
            /\ t = "cpu" => ~DeviceFailed /\ device = "cpu"
            /\ t = "cuda" =>
                 /\ cuda_available = "yes" => ~DeviceFailed /\ device = "cuda"
                 /\ cuda_available = "no" =>
                       DeviceFailed /\ error = "CUDA is not available"
                 /\ cuda_available # "unqueried"
            /\ t = "mps" =>
                 /\ mps_available = "yes" => ~DeviceFailed /\ device = "mps"
                 /\ mps_available = "no" =>
                       DeviceFailed /\ error = "MPS is not available"
                 /\ mps_available # "unqueried"

C4_Witness ==
    /\ pc = "construct"
    /\ params[1].device_type = "auto"
    /\ cuda_available = "no" /\ mps_available = "yes"
    /\ device = "mps"

\* C5: whenever the upscaler is constructed, its half-precision flag is
\* false on cpu for both values of fp32, and on cuda or mps it is the
\* negation of fp32.
C5_HalfPrecision ==
    upsampler # None =>
        /\ upsampler[1].device \in Backends
        /\ upsampler[1].device = "cpu" => upsampler[1].half = FALSE
        /\ upsampler[1].device \in {"cuda", "mps"} =>
              upsampler[1].half = ~params[1].fp32

C5_Witness ==
    /\ upsampler # None
    /\ upsampler[1].device = "cpu"
    /\ ~params[1].fp32
    /\ upsampler[1].half = FALSE

\* the request asks for blending: the blend-capable model and a strength
\* that is given and is not 1
Blends == /\ params[1].model_name = General
          /\ params[1].denoise_strength # None
          /\ params[1].denoise_strength # Some(StrengthDen)

\* C6: blend weights are present exactly when the model is
\* realesr_general_x4v3 and a strength other than 1 is supplied; then the
\* upscaler gets the two paths [general-purpose, noise-suppressed] and the
\* weights [strength, 1 - strength], which sum to 1; otherwise it gets no
\* blend weights and a single path, the general-purpose one for that model.
C6_DenoiseBlending ==
    Reached("_get_device_type") =>
        /\ dni_weight # None <=> Blends
        /\ Blends =>
             /\ Len(model_path) = 2
             /\ model_path[1].name = GeneralFile
             /\ model_path[2].name = WdnFile
             /\ model_path[2].dir = model_path[1].dir
             /\ dni_weight = <<params[1].denoise_strength[1],
                               StrengthDen - params[1].denoise_strength[1]>>
             /\ dni_weight[1] + dni_weight[2] = StrengthDen
        /\ ~Blends =>
             /\ Len(model_path) = 1
             /\ model_path[1].name = ModelValue(params[1].model_name)
        /\ upsampler # None =>
             /\ upsampler[1].model_path = model_path
             /\ upsampler[1].dni_weight = dni_weight

C6_Witness ==
    /\ upsampler # None
    /\ params[1].model_name = General
    /\ params[1].denoise_strength = Some(3)
    /\ Len(upsampler[1].model_path) = 2
    /\ upsampler[1].dni_weight = <<3, StrengthDen - 3>>

\* C7: the extension is "png" when the image decoded as RGBA, whatever was
\* requested; otherwise "jpg" when "auto" was requested; otherwise the
\* requested extension; and the extension returned by upscale is the one the
\* output buffer was encoded with.
C7_Extension ==
    /\ extension # "" =>
         /\ img_mode = "RGBA" => extension = "png"
         /\ (img_mode # "RGBA" /\ params[1].ext = "auto") => extension = "jpg"
         /\ (img_mode # "RGBA" /\ params[1].ext # "auto") =>
               extension = params[1].ext
    /\ encoded_as # "" => encoded_as = extension
    /\ result # None =>
         /\ result[1].extension = encoded_as
         /\ result[1].buffer.format = encoded_as
         /\ extension # ""

C7_Witness ==
    /\ result # None
    /\ img_mode = "RGBA"
    /\ params[1].ext = "webp"
    /\ result[1].extension = "png"

\* what each stage leaves behind is there only if the stage was executed
ProductsFollowTrace ==
    /\ model_entity # None => Reached("_get_model")
    /\ model_path # <<>> => Reached("_get_model_path")
    /\ downloads # <<>> => Reached("_get_model_path")
    /\ device # "" => Reached("_get_device_type")
    /\ upsampler # None => Reached("RealESRGANer")
    /\ img_mode # "undecoded" => Reached("imdecode")
    /\ face_enhancer # None => Reached("GFPGANer")
    /\ enhance_call # None =>
          Reached("face_enhancer.enhance") \/ Reached("upsampler.enhance")
    /\ encoded_as # "" => Reached("imencode")

\* the stage that raised left nothing behind
FailedStageLeftNothing ==
    /\ LastEvent = "_get_model" => model_entity = None
    /\ LastEvent = "_get_model_path" => model_path = <<>>
    /\ LastEvent = "_get_device_type" => device = ""
    /\ LastEvent = "RealESRGANer" => upsampler = None
    /\ LastEvent = "imdecode" => img_mode = "undecoded"
    /\ LastEvent = "GFPGANer" => face_enhancer = None
    /\ LastEvent \in {"face_enhancer.enhance", "upsampler.enhance"} =>
          enhance_call = None
    /\ LastEvent = "imencode" => result = None

C8_State ==
    pc # "idle" =>
        /\ IsPrefix(trace, FullTrace(params[1].face_enhance))
        /\ ProductsFollowTrace
        /\ pc = "raised" =>
             /\ error # ""
             /\ result = None
             /\ trace # <<>>
             /\ FailedStageLeftNothing
        /\ pc # "raised" => error = "" /\ logged = <<>>
        /\ pc \in {"get_extension", "imencode", "returned"} =>
             enhance_call # None
        /\ pc = "returned" <=> result # None
        /\ result # None => trace = FullTrace(params[1].face_enhance)
        /\ logged # <<>> =>
             /\ logged = <<error>>
             /\ error = "RuntimeError"
             /\ LastEvent \in {"GFPGANer", "face_enhancer.enhance",
                              "upsampler.enhance"}
        /\ (pc = "raised" /\ error = "RuntimeError") => logged = <<error>>

\* C8: a failure in any stage of upscale ends the call with that error: no
\* step follows a raised error (no later stage, no retry, no fallback), the
\* stages run at most once in their fixed order, no result is returned, a
\* RuntimeError raised during enhancement is logged once and is the error of
\* the call, and a result exists only when every stage has succeeded.
C8_FailurePropagates == [][pc # "raised" /\ C8_State']_vars

C8_Witness ==
    /\ pc = "raised"
    /\ error = "RuntimeError"
    /\ logged = <<"RuntimeError">>
    /\ trace = <<"_get_model", "_get_model_path", "_get_device_type",
                 "RealESRGANer", "imdecode", "upsampler.enhance">>
    /\ result = None

\* C10: the face-restoration stage is built only when face-enhance is
\* requested and only after lookup, weight resolution, device resolution,
\* upscaler construction (and decoding) have succeeded, with the base
\* upscaler as its background upscaler; enhancement then runs through it and
\* upscale does not invoke the base upscaler itself; without face-enhance
\* the stage is never built and the base upscaler is invoked directly with
\* the requested output scale.
C10_FaceRestoration ==
    pc # "idle" =>
        /\ Reached("GFPGANer") =>
             /\ params[1].face_enhance
             /\ IsPrefix(<<"_get_model", "_get_model_path", "_get_device_type",
                           "RealESRGANer", "imdecode", "GFPGANer">>, trace)
             /\ upsampler # None
        /\ face_enhancer # None =>
             /\ Reached("GFPGANer")
             /\ face_enhancer[1].bg_upsampler = upsampler[1]
             /\ face_enhancer[1].model_path = GfpganUrl
             /\ face_enhancer[1].upscale = params[1].outscale
        /\ params[1].face_enhance =>
             /\ ~Reached("upsampler.enhance")
             /\ enhance_call # None =>
                  /\ enhance_call[1].callee = "face_enhancer"
                  /\ face_enhancer # None
        /\ ~params[1].face_enhance =>
             /\ ~Reached("GFPGANer") /\ ~Reached("face_enhancer.enhance")
             /\ face_enhancer = None
             /\ enhance_call # None =>
                  /\ enhance_call[1].callee = "upsampler"
                  /\ enhance_call[1].outscale = Some(params[1].outscale)

C10_Witness ==
    /\ result # None
    /\ params[1].face_enhance
    /\ face_enhancer # None
    /\ enhance_call[1].callee = "face_enhancer"
    /\ result[1].buffer.output_of = "face_enhancer"

====
